---- MODULE Spec2Model ----
(***************************************************************************)
(* Model of todo(1) of orgutils (src/todo.c): the reading phase (addtask,  *)
(* lookupcreate, adddeps, adddue), the sorting phase (visittask, calcnice, *)
(* the filter of unblocked tasks, qsort) and the writing phase.            *)
(*                                                                         *)
(* A task is allocated with emalloc (malloc): every field that the code    *)
(* does not assign holds indeterminate content.  The model keeps, per      *)
(* task, the set `junk` of the fields that were never assigned; reading    *)
(* such a field yields any value of JunkValues for it (zero included), and *)
(* the value read is kept.  A wild pointer that is dereferenced or freed   *)
(* ends the run in state "crash".                                          *)
(***************************************************************************)
EXTENDS Integers, Sequences, FiniteSets, TLC

VARIABLES
    pc,         \* position of main: read, pass1..pass4, print, free, exit, or a fatal end
    dflag,      \* option -d
    lflag,      \* option -l
    today,      \* reference time (time_t, seconds)
    profile,    \* which family of input lines this run reads
    exitval,    \* exitval of main
    input,      \* the lines readtasks has passed to addtask so far
    tasks,      \* the heap of struct Task, in allocation order
    htab,       \* agenda->htab: the chain of each bucket in use, head first
    unsort,     \* agenda->unsort: list of tasks, head first
    slist,      \* agenda->shead .. agenda->stail through snext
    array,      \* agenda->array[0 .. nunblock-1]
    cursor,     \* loop variable `task` of the pass of sorttasks being run
    stack,      \* call stack of visittask: frames [task, k], k edges done
    output,     \* what printtasks wrote
    errname     \* task named by the fatal error message, 0 when none

vars == <<pc, dflag, lflag, today, profile, exitval, input, tasks, htab, unsort, slist,
          array, cursor, stack, output, errname>>

-----------------------------------------------------------------------------
(* Bounds of the model *)

MaxLines == 3

(* Program constants *)

DEFDAYS == 8
DEFNICE == 3
NHASH == 128
MULTIPLIER == 31
MIDDAY == 12
SECS_PER_DAY == 24 * 60 * 60

-----------------------------------------------------------------------------
(* Input domain *)

Names == {1, 2, 3}

\* the characters of a task name: names are "a", "b" and "cd"; hash sends
\* "a" and "cd" to the same bucket
NameStr(n) == IF n = 3 THEN <<99, 100>> ELSE <<96 + n>>

\* the day the run takes as today
TodayDay == 20

DueProp(d) == [key |-> "due", val |-> <<d>>]
BadDueProp == [key |-> "due", val |-> <<>>]
DepsProp(ns) == [key |-> "deps", val |-> ns]

\* a property that is neither due nor deps
UnknownProp == [key |-> "foo", val |-> <<>>]

-----------------------------------------------------------------------------
(* Indeterminate memory *)

\* fields of struct Task that lookupcreate leaves unassigned after emalloc
AllJunk == {"deps", "init", "nice", "visited", "due", "pri", "done", "date", "desc"}

\* values an unassigned int or time_t field may be read as (0: zeroed memory)
JunkValues ==
    [init    |-> {0, 1},
     visited |-> {0, 1, 2, -1},
     nice    |-> {0, 9},
     pri     |-> {0, 1},
     done    |-> {0, 1},
     due     |-> {0, 5 * SECS_PER_DAY}]

\* values an unassigned pointer may be read as
JunkPointers == {"NULL", "WILD"}

\* the values a read of field f of task t can yield
Reads(T, t, f) == IF f \in T[t].junk THEN JunkValues[f] ELSE {T[t][f]}

\* the heap once field f of task t was read as v
Resolve(T, t, f, v) == [T EXCEPT ![t][f] = v, ![t].junk = @ \ {f}]

\* the values a read of pointer field f of task t can yield
ReadsPtr(T, t, f) == IF f \in T[t].junk THEN JunkPointers ELSE {"NULL"}

-----------------------------------------------------------------------------
(* Pure functions *)

Min(S) == CHOOSE x \in S : \A y \in S : x <= y

RECURSIVE hashfrom(_, _)
hashfrom(h, s) ==
    IF s = <<>> THEN h ELSE hashfrom(MULTIPLIER * h + Head(s), Tail(s))

\* names are short: h stays far below the width of size_t
hash(s) == hashfrom(0, s) % NHASH

\* prefix 0 is the NULL prefix main passes when it reads one source
getfullname(prefix, name) == <<prefix, name>>

\* time of day `day` at 12:00 (no daylight saving: days are 24 hours long)
mktime(day) == day * SECS_PER_DAY + MIDDAY * 60 * 60

\* conversion of a quotient a / b to int: truncation toward zero
TruncDiv(a, b) == IF a >= 0 THEN a \div b ELSE -((-a) \div b)

\* number of iterations of `while (ndays >>= 1)`, for ndays >= 0
RECURSIVE shifts(_)
shifts(n) == IF n \div 2 = 0 THEN 0 ELSE 1 + shifts(n \div 2)

\* ndays of calcnice
ndaysof(due, now) ==
    IF due # 0 THEN TruncDiv((due - now) - SECS_PER_DAY, SECS_PER_DAY)
               ELSE DEFDAYS

\* ownnice without the branch that negates the count of an overdue task
ownnice_unsigned(due, pri, now) ==
    LET ndays == ndaysof(due, now)
    IN  shifts(IF ndays < 0 THEN -ndays ELSE ndays) - pri

\* the local variable nice of calcnice after `nice -= task->pri`
ownnice(due, pri, now) ==
    LET ndays == ndaysof(due, now)
    IN  (IF ndays < 0 THEN -shifts(-ndays) ELSE shifts(ndays)) - pri

\* comparetask with its two results exchanged
comparetask_reversed(T, a, b) ==
    IF T[a].nice < T[b].nice THEN 1
    ELSE IF T[a].nice > T[b].nice THEN -1 ELSE 0

\* comparetask: -1, 0 or +1
comparetask(T, a, b) ==
    IF T[a].nice < T[b].nice THEN -1
    ELSE IF T[a].nice > T[b].nice THEN 1 ELSE 0

-----------------------------------------------------------------------------
(* The reading phase.  An agenda value A is [tasks, htab, unsort]. *)

\* what emalloc returns in lookupcreate, with name assigned
NewTask(fullname) ==
    [name |-> fullname, init |-> 0, nice |-> 0, visited |-> 0, due |-> 0,
     pri |-> 0, done |-> 0, date |-> 0, desc |-> <<>>, deps |-> <<>>,
     junk |-> AllJunk]

\* agenda->htab[h]: the buckets ecalloc zeroed and no task entered are NULL
bucket(H, h) == IF h \in DOMAIN H THEN H[h] ELSE <<>>

\* lookupcreate taking any task of the bucket for the task looked up
lookupcreate_bucket(A, prefix, name) ==
    LET fullname == getfullname(prefix, name)
        h == hash(NameStr(name))
        chain == bucket(A.htab, h)
    IN  IF chain # <<>>
        THEN [A |-> A, task |-> chain[1]]
        ELSE LET t == Len(A.tasks) + 1
             IN  [A |-> [tasks  |-> Append(A.tasks, NewTask(fullname)),
                         htab   |-> [b \in DOMAIN A.htab \cup {h} |->
                                        IF b = h THEN <<t>> ELSE A.htab[b]],
                         unsort |-> <<t>> \o A.unsort],
                  task |-> t]

\* lookupcreate: [A |-> agenda afterwards, task |-> the task found or made]
lookupcreate(A, prefix, name) ==
    LET fullname == getfullname(prefix, name)
        h == hash(NameStr(name))
        chain == bucket(A.htab, h)
        hits == {i \in 1..Len(chain) : A.tasks[chain[i]].name = fullname}
    IN  IF hits # {}
        THEN [A |-> A, task |-> chain[Min(hits)]]
        ELSE LET t == Len(A.tasks) + 1
             IN  [A |-> [tasks  |-> Append(A.tasks, NewTask(fullname)),
                         htab   |-> [b \in DOMAIN A.htab \cup {h} |->
                                        IF b = h THEN <<t>> \o chain ELSE A.htab[b]],
                         unsort |-> <<t>> \o A.unsort],
                  task |-> t]

\* adddeps storing each edge in place of the list instead of at its head
RECURSIVE adddeps_replace(_, _, _, _)
adddeps_replace(A, task, prefix, s) ==
    IF s = <<>> THEN A
    ELSE LET r == lookupcreate(A, prefix, Head(s))
             A1 == [r.A EXCEPT !.tasks[task].deps = <<r.task>>]
         IN  adddeps_replace(A1, task, prefix, Tail(s))

\* adddeps: one edge per name of s, each pushed at the head of task->deps
RECURSIVE adddeps(_, _, _, _)
adddeps(A, task, prefix, s) ==
    IF s = <<>> THEN A
    ELSE LET r == lookupcreate(A, prefix, Head(s))
             A1 == [r.A EXCEPT !.tasks[task].deps = <<r.task>> \o @]
         IN  adddeps(A1, task, prefix, Tail(s))

\* whether adddue marks the task done
overdue(flag, due, now) == flag /\ due < now

\* adddue clearing the due date when strptime rejects the date
adddue_clear(T, task, s, flag, now) ==
    IF s = <<>>
    THEN [T EXCEPT ![task].date = 0, ![task].due = 0,
                   ![task].junk = @ \ {"date", "due"}]
    ELSE LET t == mktime(s[1])
             T1 == [T EXCEPT ![task].date = s[1], ![task].due = t,
                             ![task].junk = @ \ {"date", "due"}]
         IN  IF overdue(flag, t, now)
             THEN [T1 EXCEPT ![task].done = 1, ![task].junk = @ \ {"done"}]
             ELSE T1

\* adddue: s is <<day>> for a date strptime accepts, <<>> otherwise
adddue(T, task, s, flag, now) ==
    IF s = <<>> THEN T
    ELSE LET t == mktime(s[1])
             T1 == [T EXCEPT ![task].date = s[1], ![task].due = t,
                             ![task].junk = @ \ {"date", "due"}]
         IN  IF overdue(flag, t, now)
             THEN [T1 EXCEPT ![task].done = 1, ![task].junk = @ \ {"done"}]
             ELSE T1

\* the property loop of addtask: properties are taken from the end of the line
RECURSIVE addprops(_, _, _, _, _, _)
addprops(A, task, prefix, props, flag, now) ==
    IF props = <<>> THEN A
    ELSE LET p == props[Len(props)]
             rest == SubSeq(props, 1, Len(props) - 1)
             A1 == IF p.key = "due"
                   THEN [A EXCEPT !.tasks = adddue(@, task, p.val, flag, now)]
                   ELSE IF p.key = "deps"
                   THEN adddeps(A, task, prefix, p.val)
                   ELSE A
         IN  addprops(A1, task, prefix, rest, flag, now)

\* the status tag of a line
statusdone(status) == IF status = "DONE" THEN 1 ELSE 0

\* the priority switch of addtask
prival(c) == IF c = "A" THEN 1 ELSE IF c = "C" THEN -1 ELSE 0

\* the assignments that end addtask
definetask(T, task, desc, pri, done) ==
    [T EXCEPT ![task].desc = desc, ![task].init = 1, ![task].pri = pri,
              ![task].visited = 0, ![task].nice = DEFNICE, ![task].done = done,
              ![task].junk = @ \ {"desc", "init", "pri", "visited", "nice", "done"}]

\* the agenda in the variables
Agenda == [tasks |-> tasks, htab |-> htab, unsort |-> unsort]

\* a line of the input, as addtask parses it
Line(status, name, pri, props, desc) ==
    [status |-> status, name |-> name, pri |-> pri, props |-> props, desc |-> desc]

\* plain line `name: d1` with the properties props
Plain(name, props) == Line("TODO", name, "", props, "d1")

\* a line whose first word has no colon: name is 0, the NULL of addtask
NotTask == Line("TODO", 0, "", <<>>, "d1")

Deps(ns) == <<DepsProp(ns)>>
Due(off) == <<DueProp(TodayDay + off)>>

\* the families of input lines; a run reads lines of one family
Lines(p) ==
    IF p = "graph" THEN
        {Plain(2, <<>>), Plain(3, <<>>),
         Plain(1, Deps(<<1>>)), Plain(1, Deps(<<2>>)), Plain(2, Deps(<<1>>)),
         Plain(2, Deps(<<3>>)), Plain(3, Deps(<<1>>)), Plain(1, Deps(<<2, 3>>))}
    ELSE IF p = "status" THEN
        {Plain(1, Deps(<<2>>)),
         Plain(2, <<>>), Line("DONE", 2, "", <<>>, "d1"),
         Plain(2, Deps(<<3>>)), Plain(3, <<>>), Line("DONE", 3, "", <<>>, "d1"),
         Plain(1, Deps(<<2, 3>>))}
    ELSE IF p = "nice" THEN
        {Line("TODO", 1, "A", Deps(<<2>>), "d1"),
         Plain(1, Due(1) \o Deps(<<2>>)), Plain(1, Deps(<<2>>) \o Due(-3)),
         Plain(2, <<>>), Plain(2, Deps(<<3>>)), Plain(2, Due(1) \o Deps(<<3>>)),
         Plain(3, <<>>), Line("TODO", 3, "C", <<>>, "d1"), Plain(3, Due(40))}
    ELSE IF p = "rank" THEN
        {Plain(1, Due(-3)), Plain(1, Due(5)), Line("TODO", 1, "A", <<>>, "d1"),
         Plain(2, Due(6)), Plain(2, Due(1)), Line("TODO", 2, "C", <<>>, "d1"),
         Plain(3, Due(40)), Plain(3, <<>>), Plain(3, Due(50)),
         Plain(1, Due(-3) \o Deps(<<2>>))}
    ELSE IF p = "overdue" THEN
        {Plain(1, Due(-3)), Line("DONE", 1, "", Due(-3), "d1"), Plain(1, <<>>),
         Plain(1, Due(1)), Plain(2, Deps(<<1>>)), Plain(2, <<>>)}
    ELSE IF p = "errors" THEN
        {NotTask, Plain(1, <<UnknownProp>>), Plain(1, <<BadDueProp>>),
         Plain(1, Due(5)), Plain(2, <<>>),
         Line("DONE", 1, "A", Deps(<<2>>) \o <<BadDueProp>>, "d2")}
    ELSE
        {Plain(1, <<>>), Line("TODO", 1, "", <<>>, "d2"),
         Plain(1, Deps(<<2>>)), Line("TODO", 1, "", Deps(<<3>>), "d2"),
         Plain(2, <<>>), Plain(3, <<>>)}

Profiles == {"graph", "status", "nice", "rank", "overdue", "redef", "errors"}

\* addtask: a line without name is reported and skipped
addtask(line) ==
    LET r == lookupcreate(Agenda, 0, line.name)
        task == r.task
        A == addprops(r.A, task, 0, line.props, dflag, today)
    IN  /\ input' = Append(input, line)
        /\ IF line.name = 0
           THEN UNCHANGED <<pc, tasks, htab, unsort>>
           ELSE /\ htab' = A.htab
                /\ unsort' = A.unsort
                /\ \E p \in ReadsPtr(A.tasks, task, "desc") :
                      IF p = "WILD"
                      THEN /\ pc' = "crash"
                           /\ tasks' = A.tasks
                      ELSE /\ pc' = pc
                           /\ tasks' = definetask(A.tasks, task,
                                                  getfullname(0, line.desc),
                                                  prival(line.pri),
                                                  statusdone(line.status))
        /\ UNCHANGED <<dflag, lflag, today, profile, exitval, slist, array, cursor, stack,
                       output, errname>>

\* one iteration of the loop of readtasks
ReadLine ==
    /\ pc = "read"
    /\ Len(input) < MaxLines
    /\ \E line \in Lines(profile) : addtask(line)

\* whether ferror(fp) can hold when fgets returns NULL
ferror == IF profile = "errors" THEN BOOLEAN ELSE {FALSE}

\* end of input: readtasks tests ferror, main frees the hash table and calls
\* sorttasks
EndRead ==
    /\ pc = "read"
    /\ pc' = "pass1"
    /\ cursor' = 1
    /\ htab' = <<>>
    /\ \E e \in ferror : exitval' = IF e THEN 1 ELSE exitval
    /\ UNCHANGED <<dflag, lflag, today, profile, input, tasks, unsort,
                   slist, array, stack, output, errname>>

-----------------------------------------------------------------------------
(* The sorting phase: first pass of sorttasks and visittask *)

Top == stack[Len(stack)]
Pop == SubSeq(stack, 1, Len(stack) - 1)

\* the two tests that open visittask, on the value of task->visited
visitcase_nocycle(v) == IF v >= 1 THEN "return" ELSE "enter"

visitcase(v) == IF v > 1 THEN "return" ELSE IF v = 1 THEN "cycle" ELSE "enter"

\* body of the first loop of sorttasks, up to the call of visittask
SortCheck ==
    /\ pc = "pass1"
    /\ stack = <<>>
    /\ cursor <= Len(unsort)
    /\ LET t == unsort[cursor]
       IN  \E vi \in Reads(tasks, t, "init") :
             LET T1 == Resolve(tasks, t, "init", vi)
             IN  IF vi = 0
                 THEN /\ pc' = "undef"
                      /\ errname' = T1[t].name[2]
                      /\ tasks' = T1
                      /\ UNCHANGED <<cursor, stack>>
                 ELSE \E vv \in Reads(T1, t, "visited") :
                        LET T2 == Resolve(T1, t, "visited", vv)
                        IN  /\ UNCHANGED <<pc, errname>>
                            /\ IF vv = 0
                               THEN /\ tasks' = [T2 EXCEPT ![t].visited = 1]
                                    /\ stack' = <<[task |-> t, k |-> 0]>>
                                    /\ cursor' = cursor
                               ELSE /\ tasks' = T2
                                    /\ stack' = stack
                                    /\ cursor' = cursor + 1
    /\ UNCHANGED <<dflag, lflag, today, profile, exitval, input, htab, unsort, slist,
                   array, output>>

\* visittask follows the next edge of the task on top of the stack
VisitEdge ==
    /\ pc = "pass1"
    /\ stack # <<>>
    /\ Top.k < Len(tasks[Top.task].deps)
    /\ LET c == tasks[Top.task].deps[Top.k + 1]
           next == [stack EXCEPT ![Len(stack)].k = @ + 1]
       IN  \E vv \in Reads(tasks, c, "visited") :
             LET T1 == Resolve(tasks, c, "visited", vv)
             IN  IF visitcase(vv) = "return"
                 THEN /\ tasks' = T1
                      /\ stack' = next
                      /\ UNCHANGED <<pc, errname>>
                 ELSE IF visitcase(vv) = "cycle"
                 THEN /\ pc' = "cycle"
                      /\ tasks' = T1
                      /\ UNCHANGED <<stack, errname>>
                 ELSE /\ tasks' = [T1 EXCEPT ![c].visited = 1]
                      /\ stack' = Append(next, [task |-> c, k |-> 0])
                      /\ UNCHANGED <<pc, errname>>
    /\ UNCHANGED <<dflag, lflag, today, profile, exitval, input, htab, unsort, slist,
                   array, cursor, output>>

\* visittask reaches the end of the edge list and appends the task
VisitDone ==
    /\ pc = "pass1"
    /\ stack # <<>>
    /\ Top.k = Len(tasks[Top.task].deps)
    /\ LET t == Top.task
       IN  \E p \in ReadsPtr(tasks, t, "deps") :
             IF p = "WILD"
             THEN /\ pc' = "crash"
                  /\ UNCHANGED <<tasks, stack, slist, cursor>>
             ELSE /\ tasks' = [tasks EXCEPT ![t].visited = 2,
                                            ![t].junk = @ \ {"deps"}]
                  /\ slist' = Append(slist, t)
                  /\ stack' = Pop
                  /\ cursor' = IF Len(stack) = 1 THEN cursor + 1 ELSE cursor
                  /\ pc' = pc
    /\ UNCHANGED <<dflag, lflag, today, profile, exitval, input, htab, unsort, array,
                   output, errname>>

\* the first loop ends; the second starts at stail
Pass1End ==
    /\ pc = "pass1"
    /\ stack = <<>>
    /\ cursor > Len(unsort)
    /\ pc' = "pass2"
    /\ cursor' = Len(slist)
    /\ UNCHANGED <<dflag, lflag, today, profile, exitval, input, tasks, htab, unsort,
                   slist, array, stack, output, errname>>

-----------------------------------------------------------------------------
(* Second pass: calcnice *)

\* calcnice without its edge loop
pushnice_none(T, t, es) == T

\* the edge loop of calcnice, over the edges es of task t
RECURSIVE pushnice(_, _, _)
pushnice(T, t, es) ==
    IF es = <<>> THEN T
    ELSE LET to == Head(es)
             T1 == IF T[t].nice < T[to].nice
                   THEN [T EXCEPT ![to].nice = T[t].nice]
                   ELSE T
         IN  pushnice(T1, t, Tail(es))

\* calcnice, on a heap where the fields it reads are determined
calcnice(T, t, now) ==
    LET nice == ownnice(T[t].due, T[t].pri, now)
        T1 == IF nice < T[t].nice THEN [T EXCEPT ![t].nice = nice] ELSE T
    IN  pushnice(T1, t, T1[t].deps)

\* the heap with field f of every task of S read as g[task]
RECURSIVE ResolveAll(_, _, _, _)
ResolveAll(T, S, f, g) ==
    IF S = {} THEN T
    ELSE LET t == CHOOSE x \in S : TRUE
         IN  ResolveAll(Resolve(T, t, f, g[t]), S \ {t}, f, g)

Range(s) == {s[i] : i \in 1..Len(s)}

\* one iteration of the second loop of sorttasks
CalcNice ==
    /\ pc = "pass2"
    /\ cursor >= 1
    /\ LET t == slist[cursor]
       IN  \E vd \in Reads(tasks, t, "due"), vp \in Reads(tasks, t, "pri"),
              vn \in Reads(tasks, t, "nice") :
             LET T1 == Resolve(Resolve(Resolve(tasks, t, "due", vd), t, "pri", vp),
                               t, "nice", vn)
                 J == {to \in Range(T1[t].deps) : "nice" \in T1[to].junk}
             IN  \E g \in [J -> JunkValues.nice] :
                   tasks' = calcnice(ResolveAll(T1, J, "nice", g), t, today)
    /\ cursor' = cursor - 1
    /\ UNCHANGED <<pc, dflag, lflag, today, profile, exitval, input, htab, unsort, slist,
                   array, stack, output, errname>>

\* the second loop ends; the array is allocated and the third loop starts
Pass2End ==
    /\ pc = "pass2"
    /\ cursor = 0
    /\ pc' = "pass3"
    /\ cursor' = 1
    /\ array' = <<>>
    /\ UNCHANGED <<dflag, lflag, today, profile, exitval, input, tasks, htab, unsort,
                   slist, stack, output, errname>>

-----------------------------------------------------------------------------
(* Third and fourth pass: the array of unblocked tasks, sorted *)

\* whether the third loop puts task t in the array
unblocked(T, t) ==
    /\ T[t].done = 0
    /\ \A i \in 1..Len(T[t].deps) : T[T[t].deps[i]].done # 0

\* the array the third loop builds from the tasks ts, appended to a
RECURSIVE collect(_, _, _)
collect(T, ts, a) ==
    IF ts = <<>> THEN a
    ELSE collect(T, Tail(ts),
                 IF unblocked(T, Head(ts)) THEN Append(a, Head(ts)) ELSE a)

\* the third loop of sorttasks; it ends when the snext of stail, which no
\* statement assigns, is read as NULL
Unblock ==
    /\ pc = "pass3"
    /\ LET J == {x \in Range(slist) \cup UNION {Range(tasks[t].deps) : t \in Range(slist)} :
                    "done" \in tasks[x].junk}
       IN  \E g \in [J -> JunkValues.done] :
             LET T1 == ResolveAll(tasks, J, "done", g)
             IN  /\ tasks' = T1
                 /\ array' = collect(T1, slist, array)
    /\ \E p \in IF slist # <<>> THEN JunkPointers ELSE {"NULL"} :
          pc' = IF p = "WILD" THEN "crash" ELSE "pass4"
    /\ UNCHANGED <<dflag, lflag, today, profile, exitval, input, htab, unsort, slist,
                   cursor, stack, output, errname>>

\* the orders qsort can leave the array in: any order comparetask accepts
Sorted(T, a) ==
    {q \in [1..Len(a) -> Range(a)] :
        /\ \A i, j \in 1..Len(a) : i # j => q[i] # q[j]
        /\ \A i, j \in 1..Len(a) : i < j => comparetask(T, q[i], q[j]) <= 0}

Qsort ==
    /\ pc = "pass4"
    /\ array' \in Sorted(tasks, array)
    /\ pc' = "print"
    /\ UNCHANGED <<dflag, lflag, today, profile, exitval, input, tasks, htab, unsort,
                   slist, cursor, stack, output, errname>>

-----------------------------------------------------------------------------
(* The writing phase *)

\* what printtasks writes for a task
printed(T, t) == [task |-> t, desc |-> T[t].desc]

\* the pointers printtasks passes to printf for task t
PrintReads(T, t, long) ==
    {f \in {"desc"} \cup (IF long THEN {"date"} ELSE {}) : f \in T[t].junk}

\* printtasks: c is the first line that prints through a wild pointer, 0 if none
PrintTasks ==
    /\ pc = "print"
    /\ \E c \in {0} \cup {i \in 1..Len(array) : PrintReads(tasks, array[i], lflag) # {}} :
          LET n == IF c = 0 THEN Len(array) ELSE c - 1
          IN  /\ output' = [i \in 1..n |-> printed(tasks, array[i])]
              /\ pc' = IF c = 0 THEN "free" ELSE "crash"
              /\ tasks' = [t \in 1..Len(tasks) |->
                             IF \E i \in 1..n : array[i] = t
                             THEN [tasks[t] EXCEPT !.junk = @ \ PrintReads(tasks, t, lflag)]
                             ELSE tasks[t]]
    /\ UNCHANGED <<dflag, lflag, today, profile, exitval, input, htab, unsort, slist,
                   array, cursor, stack, errname>>

\* freeagenda walks and frees deps, desc and date of every task, then main returns
FreeAgenda ==
    /\ pc = "free"
    /\ \E wild \in IF \E t \in 1..Len(tasks) :
                        tasks[t].junk \cap {"deps", "desc", "date"} # {}
                   THEN BOOLEAN ELSE {FALSE} :
          pc' = IF wild THEN "crash" ELSE "exit"
    /\ UNCHANGED <<dflag, lflag, today, profile, exitval, input, tasks, htab, unsort,
                   slist, array, cursor, stack, output, errname>>

-----------------------------------------------------------------------------

Init ==
    /\ pc = "read"
    /\ profile \in Profiles
    /\ dflag = (profile = "overdue")
    /\ lflag = (profile = "overdue")
    /\ today = mktime(TodayDay)
    /\ exitval = 0
    /\ input = <<>>
    /\ tasks = <<>>
    /\ htab = <<>>
    /\ unsort = <<>>
    /\ slist = <<>>
    /\ array = <<>>
    /\ cursor = 0
    /\ stack = <<>>
    /\ output = <<>>
    /\ errname = 0

Next ==
    \/ ReadLine
    \/ EndRead
    \/ SortCheck
    \/ VisitEdge
    \/ VisitDone
    \/ Pass1End
    \/ CalcNice
    \/ Pass2End
    \/ Unblock
    \/ Qsort
    \/ PrintTasks
    \/ FreeAgenda

Spec == Init /\ [][Next]_vars

-----------------------------------------------------------------------------
(* Vocabulary of the properties *)

Tasks == 1..Len(tasks)

\* the lines addtask has processed to its end
NDone == IF pc = "crash" /\ cursor = 0 THEN Len(input) - 1 ELSE Len(input)

\* the lines that define name n
DefsOf(n) == {i \in 1..NDone : input[i].name = n}

NameOf(t) == tasks[t].name[2]

\* task t was defined by a line, not only mentioned in a deps property
Defined(t) == DefsOf(NameOf(t)) # {}

\* some task was mentioned and never defined
Undefined == \E t \in Tasks : ~Defined(t)

Succ(t) == Range(tasks[t].deps)

RECURSIVE ReachFrom(_, _)
ReachFrom(S, n) ==
    LET N == S \cup UNION {Succ(x) : x \in S}
    IN  IF n = 0 \/ N = S THEN S ELSE ReachFrom(N, n - 1)

\* the direct and transitive prerequisites of task t
Reach(t) == ReachFrom(Succ(t), Len(tasks))

\* the dependency relation has a cycle
Cyclic == \E t \in Tasks : t \in Reach(t)

\* the run ended, and not by a crash
Orderly == pc \in {"exit", "cycle", "undef"}

\* the second pass of sorttasks is over
AfterPass2 == pc \in {"pass3", "pass4", "print", "free", "exit"}

\* printtasks returned
Printed == pc \in {"free", "exit"}

OutTasks == {output[i].task : i \in 1..Len(output)}

-----------------------------------------------------------------------------
(* C1 *)

\* C1 as stated: every run on an input whose dependency relation has a cycle
\* ends in the cyclic-dependency error and prints nothing (checked on the runs
\* that end in an orderly way).
C1_Original == (Orderly /\ Cyclic) => (pc = "cycle" /\ output = <<>>)

\* C1 amended: on an input whose dependency relation has a cycle sorttasks never
\* gets past its first pass and nothing is printed; the run ends in the cycle
\* error when every task is defined and it ends in an orderly way (an undefined
\* task met first ends it in the undefined-task error); and on an acyclic, fully
\* defined input the cycle error is never raised.
C1_Amended ==
    /\ (pc # "read" /\ Cyclic) =>
          (pc \in {"pass1", "cycle", "undef", "crash"} /\ output = <<>>)
    /\ (Orderly /\ ~Undefined /\ Cyclic) => pc = "cycle"
    /\ pc = "cycle" => (Cyclic \/ Undefined)

\* a cycle of three fully defined tasks ended the run in the cycle error
C1_Witness ==
    /\ pc = "cycle"
    /\ ~Undefined
    /\ Len(tasks) = 3
    /\ \A t \in Tasks : t \notin Succ(t) /\ \A u \in Succ(t) : t \notin Succ(u)

-----------------------------------------------------------------------------
(* C2 *)

\* C2: when a task is mentioned in a deps property and no line defines it, the
\* run ends in the error "mentioned but not defined" and prints nothing (stated
\* for the inputs without a cycle and the runs that end in an orderly way).
C2_Claim ==
    (Undefined /\ ~Cyclic /\ Orderly) => (pc = "undef" /\ output = <<>>)

-----------------------------------------------------------------------------
(* C3 *)

\* the defined tasks that are not done and whose direct dependencies are all done
Ready ==
    {t \in Tasks : /\ Defined(t)
                   /\ tasks[t].done = 0
                   /\ \A p \in Succ(t) : tasks[p].done # 0}

\* C3: on every run that prints, the printed tasks are exactly the defined
\* tasks that are not done and whose every direct dependency is done, each once.
C3_Claim ==
    Printed => (OutTasks = Ready /\ Cardinality(OutTasks) = Len(output))

-----------------------------------------------------------------------------
(* C4 *)

\* C4: once the second pass of sorttasks is over, every task T and every direct
\* or transitive prerequisite P of T have determined urgencies with
\* urgency(P) <= urgency(T).
C4_Theorem ==
    AfterPass2 =>
        \A t \in Tasks : \A p \in Reach(t) :
            /\ "nice" \notin tasks[t].junk \cup tasks[p].junk
            /\ tasks[p].nice <= tasks[t].nice

\* a prerequisite that is not a direct one got, from a task that depends on it,
\* an urgency below the one its own deadline and priority give
C4_Witness ==
    /\ AfterPass2
    /\ ~Undefined
    /\ \E t \in Tasks : \E p \in Reach(t) \ Succ(t) :
          /\ tasks[p].nice = tasks[t].nice
          /\ tasks[p].nice < DEFNICE
          /\ tasks[p].nice < ownnice(tasks[p].due, tasks[p].pri, today)

-----------------------------------------------------------------------------
(* C5 *)

\* the tasks the third pass found not done and not blocked, in its order
Unblocked == collect(tasks, slist, <<>>)

\* C5: the printed sequence is a permutation of the not-done, unblocked tasks
\* (none lost, none twice) and the urgency never decreases along it.
C5_Theorem ==
    Printed =>
        /\ Len(output) = Len(Unblocked)
        /\ OutTasks = Range(Unblocked)
        /\ \A i, j \in 1..Len(output) : i # j => output[i].task # output[j].task
        /\ \A i, j \in 1..Len(output) :
              i < j => tasks[output[i].task].nice <= tasks[output[j].task].nice

\* three tasks of three different urgencies were printed, in another order
\* than the third pass had them
C5_Witness ==
    /\ pc = "exit"
    /\ Len(output) = 3
    /\ \A i, j \in 1..3 :
          i < j => tasks[output[i].task].nice < tasks[output[j].task].nice
    /\ \E i \in 1..3 : output[i].task # Unblocked[i]

-----------------------------------------------------------------------------
(* C6 *)

\* the tasks whose name is n
TasksNamed(n) == {t \in Tasks : NameOf(t) = n}

\* the last of the lines that define name n
LastDef(n) == LET D == DefsOf(n) IN CHOOSE i \in D : \A j \in D : j <= i

\* the names a line gives in its deps properties
DepNames(line) ==
    UNION {Range(line.props[k].val) :
              k \in {i \in 1..Len(line.props) : line.props[i].key = "deps"}}

\* C6: for every name defined by one or more lines there is exactly one task;
\* it has the description of the last defining line and an edge to the task of
\* every name that any of its defining lines gives as a dependency.
C6_Theorem ==
    \A n \in Names :
        DefsOf(n) # {} =>
            /\ Cardinality(TasksNamed(n)) = 1
            /\ \A t \in TasksNamed(n) :
                  /\ "desc" \notin tasks[t].junk
                  /\ tasks[t].desc = getfullname(0, input[LastDef(n)].desc)
                  /\ \A i \in DefsOf(n) : \A m \in DepNames(input[i]) :
                        \E u \in Succ(t) : NameOf(u) = m

\* a name was defined twice, with two descriptions and two different
\* dependencies, and loading is over
C6_Witness ==
    /\ pc = "pass1"
    /\ \E n \in Names : \E i, j \in DefsOf(n) :
          /\ i < j
          /\ input[i].desc # input[j].desc
          /\ DepNames(input[i]) # {}
          /\ DepNames(input[j]) # {}
          /\ DepNames(input[i]) \cap DepNames(input[j]) = {}

-----------------------------------------------------------------------------
(* C7 *)

\* the tasks that directly depend on task t
Dependents(t) == {d \in Tasks : t \in Succ(d)}

\* C7: once the second pass is over, the urgency of every task is the minimum
\* of its own base urgency (deadline bucket minus priority) and the urgencies of
\* the tasks that directly depend on it (stated for fully defined inputs).
C7_Claim ==
    (AfterPass2 /\ ~Undefined) =>
        \A t \in Tasks :
            tasks[t].nice =
                Min({ownnice(tasks[t].due, tasks[t].pri, today)}
                        \cup {tasks[d].nice : d \in Dependents(t)})

-----------------------------------------------------------------------------
(* C8 *)

\* floor of the base-2 logarithm of n, for n >= 1 (0 for n = 0)
RECURSIVE log2floor(_)
log2floor(n) == IF n < 2 THEN 0 ELSE 1 + log2floor(n \div 2)

\* sign(d) * floor(log2(|d|))
signedlog(d) == IF d < 0 THEN -log2floor(-d) ELSE log2floor(d)

\* adddue gave task t a due date
HasDue(t) == "date" \notin tasks[t].junk /\ tasks[t].date # 0

\* C8: the base urgency calcnice computes for a task is
\* sign(daysLeft) * floor(log2(|daysLeft|)) minus the priority value, daysLeft
\* being the due day minus the reference day, or 8 for a task without due date
\* (stated for the tasks whose due field holds a due date or reads as zero).
C8_Claim ==
    (AfterPass2 /\ ~Undefined) =>
        \A t \in Tasks :
            (HasDue(t) \/ tasks[t].due = 0) =>
                ownnice(tasks[t].due, tasks[t].pri, today) =
                    signedlog(IF HasDue(t) THEN tasks[t].date - TodayDay
                                           ELSE DEFDAYS) - tasks[t].pri

-----------------------------------------------------------------------------
(* C9 *)

\* the days a line gives in due properties that strptime accepts
DueDays(line) ==
    {line.props[k].val[1] :
        k \in {i \in 1..Len(line.props) :
                  line.props[i].key = "due" /\ line.props[i].val # <<>>}}

\* C9: with the option -d, when loading is over every task whose defining line
\* (the last one, when there are several) has a due date before the reference
\* date is done.
C9_Claim ==
    (dflag /\ pc \notin {"read", "crash"}) =>
        \A t \in Tasks :
            (/\ Defined(t)
             /\ \E d \in DueDays(input[LastDef(NameOf(t))]) : d < TodayDay) =>
                ("done" \notin tasks[t].junk /\ tasks[t].done = 1)

-----------------------------------------------------------------------------
(* C10 *)

\* the input is made of independent chains of defined tasks that have equal
\* priorities and pairwise distinct due dates
Chains ==
    /\ ~Undefined
    /\ \A t \in Tasks :
          /\ HasDue(t)
          /\ Cardinality(Succ(t)) <= 1
          /\ Cardinality(Dependents(t)) <= 1
    /\ \A t, u \in Tasks :
          /\ tasks[t].pri = tasks[u].pri
          /\ t # u => tasks[t].due # tasks[u].due

\* C10 as stated: on such an input a printed task with an earlier due date
\* precedes every printed task with a later due date.
C10_Original ==
    (Printed /\ Chains) =>
        \A i, j \in 1..Len(output) :
            tasks[output[i].task].due < tasks[output[j].task].due => i < j

\* the earliest due date among task t and the tasks that depend on it, directly
\* or through other tasks
ChainDue(t) == Min({tasks[u].due : u \in {t} \cup {d \in Tasks : t \in Reach(d)}})

\* C10 amended: on such an input a printed task whose chain has the earlier due
\* date (the earliest due date among the task and the tasks that depend on it)
\* is at least as urgent as a printed task whose chain has a later one, and it
\* precedes that task whenever their urgencies differ; two due dates that give
\* the same urgency may print in either order.
C10_Amended ==
    (Printed /\ Chains) =>
        \A i, j \in 1..Len(output) :
            LET x == output[i].task
                y == output[j].task
            IN  ChainDue(x) < ChainDue(y) =>
                    /\ tasks[x].nice <= tasks[y].nice
                    /\ j < i => tasks[x].nice = tasks[y].nice

\* two chains were printed: the first task out is more urgent by the due date
\* of a task that depends on it, its own due date being the later one, or both
\* tasks stand alone and their due dates gave different urgencies
C10_Witness ==
    /\ pc = "exit"
    /\ Chains
    /\ Len(output) = 2
    /\ Len(tasks) = 3
    /\ tasks[output[1].task].nice < tasks[output[2].task].nice
    /\ Dependents(output[1].task) # {}
    /\ ChainDue(output[1].task) < tasks[output[1].task].due

-----------------------------------------------------------------------------
(* C11 *)

\* the line has a due property, parseable or not
HasDueProp(line) == \E k \in 1..Len(line.props) : line.props[k].key = "due"

\* C11: when loading is over, a task whose name was defined more than once has
\* the priority and the done flag of its latest definition and the due date of
\* that definition, no due date at all when that definition has no due
\* property, and it keeps the dependencies of all its definitions.
C11_Claim ==
    pc \notin {"read", "crash"} =>
        \A t \in Tasks :
            (Defined(t) /\ Cardinality(DefsOf(NameOf(t))) >= 2) =>
                LET l == input[LastDef(NameOf(t))]
                IN  /\ tasks[t].pri = prival(l.pri)
                    /\ ~dflag => tasks[t].done = statusdone(l.status)
                    /\ \A d \in DueDays(l) :
                          tasks[t].date = d /\ tasks[t].due = mktime(d)
                    /\ ~HasDueProp(l) => ~HasDue(t)
                    /\ \A i \in DefsOf(NameOf(t)) : \A m \in DepNames(input[i]) :
                          \E u \in Succ(t) : NameOf(u) = m

-----------------------------------------------------------------------------
(* C12 *)

\* addtask reports a recoverable error on the line: it is not a task, or it has
\* an unknown property or a due property that strptime rejects
LineError(line) ==
    \/ line.name = 0
    \/ \E k \in 1..Len(line.props) :
          \/ line.props[k].key \notin {"due", "deps"}
          \/ line.props[k].key = "due" /\ line.props[k].val = <<>>

\* C12: a line with a recoverable error does not stop the processing of the
\* lines after it (the task of every later line with a name is defined), and a
\* run in which such an error occurred and that prints its output returns a
\* non-zero exit value.
C12_Claim ==
    /\ \A i, j \in 1..NDone :
          (i < j /\ LineError(input[i]) /\ input[j].name # 0) =>
              \E t \in Tasks : NameOf(t) = input[j].name /\ tasks[t].init = 1
    /\ (pc = "exit" /\ \E i \in 1..Len(input) : LineError(input[i])) =>
          exitval # 0

-----------------------------------------------------------------------------
(* C13 *)

\* C13: the cyclic-dependency error names a task that lies on a cycle, and the
\* undefined-reference error names a task that was mentioned and never defined.
C13_Claim ==
    /\ pc = "cycle" =>
          \E t \in Tasks : NameOf(t) = errname /\ t \in Reach(t)
    /\ pc = "undef" =>
          \E t \in Tasks :
              NameOf(t) = errname /\ ~Defined(t) /\ \E d \in Tasks : t \in Succ(d)

-----------------------------------------------------------------------------
(* C14 *)

\* the first pass of sorttasks ended without a fatal error
AfterPass1 == pc \in {"pass2", "pass3", "pass4", "print", "free", "exit"}

\* the position of task t in the sorted list, 0 when it is not in it
Pos(t) ==
    IF t \in Range(slist) THEN CHOOSE i \in 1..Len(slist) : slist[i] = t ELSE 0

\* C14: when the first pass ended without a fatal error, the sorted list holds
\* every task exactly once, every task is marked finished (visited = 2), and
\* every prerequisite stands before the tasks that depend on it.
C14_Claim ==
    AfterPass1 =>
        /\ Len(slist) = Len(tasks)
        /\ Range(slist) = Tasks
        /\ \A t \in Tasks :
              /\ "visited" \notin tasks[t].junk
              /\ tasks[t].visited = 2
              /\ \A p \in Succ(t) : Pos(p) # 0 /\ Pos(p) < Pos(t)

-----------------------------------------------------------------------------
(* C15 *)

\* the names addtask has looked up: the names of the lines and of their deps
Seen ==
    UNION {{input[i].name} \cup DepNames(input[i]) :
              i \in {j \in 1..Len(input) : input[j].name # 0}}

\* the places <<bucket, index>> of the hash table that hold task t
Places(t) ==
    {<<h, i>> \in UNION {{h} \X (1..Len(htab[h])) : h \in DOMAIN htab} :
        htab[h][i] = t}

\* one task per name looked up, each once in the unsorted list and, while the
\* hash table lives, once in the bucket of its name
Registry ==
    /\ {NameOf(t) : t \in Tasks} = Seen
    /\ Len(tasks) = Cardinality(Seen)
    /\ \A t \in Tasks : tasks[t].name = getfullname(0, NameOf(t))
    /\ Len(unsort) = Len(tasks)
    /\ Range(unsort) = Tasks
    /\ pc = "read" =>
          \A t \in Tasks :
              /\ Cardinality(Places(t)) = 1
              /\ \A pl \in Places(t) : pl[1] = hash(NameStr(NameOf(t)))

\* C15: the registry always holds exactly one task per full name looked up,
\* two names of one hash bucket included, and a step never removes a task nor
\* changes the name of one: a name seen before resolves to the task it had.
C15_Theorem ==
    /\ []Registry
    /\ [][/\ Len(tasks') >= Len(tasks)
          /\ \A t \in Tasks : tasks'[t].name = tasks[t].name]_vars

\* two names share a hash bucket and a name was looked up more than once
C15_Witness ==
    /\ pc = "read"
    /\ Len(input) = 3
    /\ Len(tasks) = 2
    /\ \E h \in DOMAIN htab : Len(htab[h]) = 2

-----------------------------------------------------------------------------
(* C16 *)

\* every name looked up is defined by exactly one line
Once ==
    /\ ~Undefined
    /\ \A n \in Names : Cardinality(DefsOf(n)) <= 1

\* the line that defines task t
LineOf(t) == input[LastDef(NameOf(t))]

\* the prerequisites the line of task t names
LineSucc(t) == {u \in Tasks : NameOf(u) \in DepNames(LineOf(t))}

RECURSIVE LineReachFrom(_, _)
LineReachFrom(S, n) ==
    LET N == S \cup UNION {LineSucc(x) : x \in S}
    IN  IF n = 0 \/ N = S THEN S ELSE LineReachFrom(N, n - 1)

\* the direct and transitive prerequisites the lines give task t
LineReach(t) == LineReachFrom(LineSucc(t), Len(tasks))

\* the base urgency the line of task t gives: its due date, if any, and priority
LineNice(t) ==
    LET l == LineOf(t)
        due == IF DueDays(l) = {} THEN 0 ELSE mktime(CHOOSE d \in DueDays(l) : TRUE)
    IN  ownnice(due, prival(l.pri), today)

\* C16: on an input that defines every name exactly once, the outcome is
\* determined by the set of lines, whatever their order: the run that ends in
\* an orderly way succeeds exactly when the lines give no cycle, the final
\* urgency of a task is the least of the default and of the base urgencies that
\* the lines give the task and the tasks that depend on it, and the printed
\* tasks are the tasks whose line is not DONE and whose prerequisites' lines
\* all are.
C16_Claim ==
    Once =>
        /\ Orderly => (pc = "exit" <=> \A t \in Tasks : t \notin LineReach(t))
        /\ AfterPass2 =>
              \A t \in Tasks :
                  tasks[t].nice =
                      Min({DEFNICE} \cup
                          {LineNice(u) : u \in {t} \cup {d \in Tasks : t \in LineReach(d)}})
        /\ Printed =>
              OutTasks = {t \in Tasks :
                             /\ statusdone(LineOf(t).status) = 0
                             /\ \A p \in LineSucc(t) :
                                   statusdone(LineOf(p).status) # 0}

-----------------------------------------------------------------------------
(* C17 *)

\* the line has a due property that strptime rejects and none that it accepts
BadDue(line) ==
    /\ DueDays(line) = {}
    /\ \E k \in 1..Len(line.props) :
          line.props[k].key = "due" /\ line.props[k].val = <<>>

\* the fields of a task that hold its due date, and whether they were assigned
DueFields(r) == <<r.due, r.date, r.junk \cap {"due", "date"}>>

\* what a step of readtasks that passes line l to addtask must leave or make
Frame(l) ==
    /\ l.name = 0 => UNCHANGED <<pc, tasks, htab, unsort>>
    /\ (l.name # 0 /\ BadDue(l) /\ pc' = "read") =>
          \E t \in 1..Len(tasks') :
              /\ tasks'[t].name = getfullname(0, l.name)
              /\ IF t \in Tasks
                 THEN DueFields(tasks'[t]) = DueFields(tasks[t])
                 ELSE {"due", "date"} \subseteq tasks'[t].junk
              /\ tasks'[t].init = 1
              /\ tasks'[t].desc = getfullname(0, l.desc)
              /\ tasks'[t].pri = prival(l.pri)
              /\ tasks'[t].done = statusdone(l.status)
              /\ \A m \in DepNames(l) :
                    \E u \in Range(tasks'[t].deps) : tasks'[u].name[2] = m

\* C17: a line that is not a task leaves the registry as it was (no task
\* made, no edge added, no field of a task changed), and a line whose due
\* property has an unparseable date leaves the due date of its task as it was
\* while the task gets the description, priority, status and dependencies of
\* the line.
C17_Theorem ==
    [][(pc = "read" /\ Len(input') = Len(input) + 1) =>
           Frame(input'[Len(input')])]_vars

\* a task got a due date; a line that is not a task and a redefinition with an
\* unparseable date, DONE, priority A and a dependency followed: the task has
\* the first due date and the rest of the last line
C17_Witness ==
    /\ pc = "read"
    /\ Len(input) = 3
    /\ DueDays(input[1]) # {}
    /\ input[2].name = 0
    /\ BadDue(input[3])
    /\ input[3].name = input[1].name
    /\ \E t \in Tasks :
          /\ NameOf(t) = input[3].name
          /\ HasDue(t)
          /\ tasks[t].date \in DueDays(input[1])
          /\ tasks[t].desc = getfullname(0, input[3].desc)
          /\ tasks[t].desc # getfullname(0, input[1].desc)
          /\ tasks[t].done = 1
          /\ tasks[t].pri = 1
          /\ Succ(t) # {}

====
